---- MODULE Spec2Model ----
(***************************************************************************)
(* Model of create_ppt.py, the generator of the SERA 2026 proposal deck.   *)
(*                                                                         *)
(* Lengths are EMU integers, as python-pptx keeps them (914400 per inch).  *)
(* An inch literal is written in thousandths: Inches(13333) is the         *)
(* source's Inches(13.333).  Colours are named by the source's constant    *)
(* or, for an RGBColor literal, by its hex digits.  A text is a sequence   *)
(* of symbols: the page label is the sequence of its characters, a string  *)
(* the program never looks into is one symbol (the Arabic strings are      *)
(* written in English).                                                    *)
(***************************************************************************)
EXTENDS Integers, Sequences, FiniteSets, TLC

VARIABLES page, slides, script, pc, k, phase, err, saves, written

vars == <<page, slides, script, pc, k, phase, err, saves, written>>

----------------------------------------------------------------------------
(* Units and page size *)

\* pptx.util.Inches: int(inches * 914400); m is the literal in thousandths
Inches(m) == (m * 9144) \div 10

SLIDE_WIDTH == Inches(13333)
SLIDE_HEIGHT == Inches(7500)

\* the page size of python-pptx's default template, before main() sets it
DefaultPage == [w |-> Inches(10000), h |-> Inches(7500)]

\* faulty variant of Half: the half rounded up, not truncated
Half_RoundedUp(x) == (x + 1) \div 2

\* SLIDE_WIDTH / 2 is a float; the library writes a length with "%d"
Half(x) == x \div 2

Txt(s) == <<s>>

----------------------------------------------------------------------------
(* Shapes *)

\* slide.shapes.add_shape(kind, left, top, width, height) followed by
\* fill.solid(), fill.fore_color.rgb = fill, line.fill.background()
AutoShape(kind, left, top, width, height, fill) ==
    [kind |-> kind, left |-> left, top |-> top, width |-> width,
     height |-> height, fill |-> fill, line |-> "background",
     text |-> <<>>, size |-> 0, bold |-> FALSE, color |-> "default",
     align |-> "default", wrap |-> "default", font |-> "default"]

\* slide.shapes.add_textbox(left, top, width, height) followed by the
\* assignments to its first paragraph
TextBox(left, top, width, height, text, size, bold, color, align, wrap, font) ==
    [kind |-> "TEXTBOX", left |-> left, top |-> top, width |-> width,
     height |-> height, fill |-> "default", line |-> "default",
     text |-> text, size |-> size, bold |-> bold, color |-> color,
     align |-> align, wrap |-> wrap, font |-> font]

\* a shape as add_shape / add_textbox returns it, before it is styled
Unstyled(s) ==
    [kind |-> s.kind, left |-> s.left, top |-> s.top, width |-> s.width,
     height |-> s.height, fill |-> "default", line |-> "default",
     text |-> <<>>, size |-> 0, bold |-> FALSE, color |-> "default",
     align |-> "default", wrap |-> "default", font |-> "default"]

\* an exception raised inside an assembler, in the place of the next shape
Raise(e) == [kind |-> "RAISE", err |-> e]

----------------------------------------------------------------------------
(* Page-number formatting: f"{page_num:02d}" *)

DigitChar(d) ==
    CASE d = 0 -> "0" [] d = 1 -> "1" [] d = 2 -> "2" [] d = 3 -> "3"
      [] d = 4 -> "4" [] d = 5 -> "5" [] d = 6 -> "6" [] d = 7 -> "7"
      [] d = 8 -> "8" [] d = 9 -> "9"

RECURSIVE Decimal(_)
Decimal(n) ==
    IF n < 10 THEN <<DigitChar(n)>>
    ELSE Append(Decimal(n \div 10), DigitChar(n % 10))

RECURSIVE PadLeft(_, _, _)
PadLeft(s, width, c) ==
    IF Len(s) >= width THEN s ELSE PadLeft(<<c>> \o s, width, c)

\* faulty variant of Format02d: the number without the zero padding
Format02d_Unpadded(n) ==
    IF n >= 0 THEN Decimal(n) ELSE <<"-">> \o Decimal(0 - n)

\* the sign counts towards the width, the zeros go between sign and digits
Format02d(n) ==
    IF n >= 0 THEN PadLeft(Decimal(n), 2, "0")
    ELSE <<"-">> \o PadLeft(Decimal(0 - n), 1, "0")

\* a string literal that opens with a number, "9 events ...": its digits are
\* symbols of their own, the rest of the string is one symbol
Counted(n, rest) == Decimal(n) \o <<rest>>

\* the title of a numbered event, "12. ...": the digits, the full stop, the rest
Numbered(n, rest) == Decimal(n) \o <<".", rest>>

----------------------------------------------------------------------------
(* Layout primitives: each yields the shapes it appends, in order *)

add_top_border ==
    << AutoShape("RECTANGLE", SLIDE_WIDTH - Inches(3500), Inches(0),
                 Inches(3500), Inches(150), "GREEN"),
       AutoShape("RECTANGLE", Inches(0), Inches(200),
                 SLIDE_WIDTH - Inches(1000), Inches(80), "DARK_BLUE") >>

add_bottom_border(page_num) ==
    << AutoShape("RECTANGLE", Inches(800), SLIDE_HEIGHT - Inches(550),
                 SLIDE_WIDTH - Inches(1600), Inches(50), "GREEN"),
       AutoShape("RECTANGLE", Inches(800), SLIDE_HEIGHT - Inches(400),
                 SLIDE_WIDTH - Inches(1600), Inches(50), "DARK_BLUE"),
       TextBox(Inches(800), SLIDE_HEIGHT - Inches(500), Inches(600), Inches(400),
               Format02d(page_num), 18, TRUE, "LIGHT_BLUE", "default", "off",
               "default") >>

\* slide.shapes.add_textbox(left, top, width, height): a text box nothing has
\* been assigned to yet
add_textbox(left, top, width, height) ==
    TextBox(left, top, width, height, <<>>, 0, FALSE, "default", "default", "default",
            "default")

\* faulty variant of AlignOf: an align the chain does not know is taken as 'right'
AlignOf_ElseRight(old, align) ==
    IF align = "right" THEN "RIGHT"
    ELSE IF align = "center" THEN "CENTER"
    ELSE IF align = "left" THEN "LEFT"
    ELSE "RIGHT"

\* the if / elif / elif chain on align: there is no else, the paragraph keeps
\* the alignment it had
AlignOf(old, align) ==
    IF align = "right" THEN "RIGHT"
    ELSE IF align = "center" THEN "CENTER"
    ELSE IF align = "left" THEN "LEFT"
    ELSE old

set_rtl_arabic_text(shape, text, font_size, bold, color, align) ==
    [shape EXCEPT !.wrap = "on", !.text = text, !.size = font_size, !.bold = bold,
                  !.color = color, !.font = "Arial", !.align = AlignOf(@, align)]

add_info_card(left, top, width, height, title, value, bg_color) ==
    << AutoShape("ROUNDED_RECTANGLE", left, top, width, height, bg_color),
       TextBox(left + Inches(100), top + Inches(400), width - Inches(200),
               Inches(400), title, 12, FALSE, "WHITE", "CENTER", "default", "default"),
       TextBox(left + Inches(100), top + Inches(700), width - Inches(200),
               Inches(500), value, 16, TRUE, "WHITE", "CENTER", "default", "default") >>

add_detail_box(left, top, width, height, title, content, bg_color, border_color) ==
    << AutoShape("ROUNDED_RECTANGLE", left, top, width, height, bg_color),
       AutoShape("RECTANGLE", left + width - Inches(80), top, Inches(80), height,
                 border_color),
       TextBox(left + Inches(200), top + Inches(100), width - Inches(400),
               Inches(300), title, 14, TRUE, "DARK_BLUE", "RIGHT", "default", "default"),
       TextBox(left + Inches(200), top + Inches(350), width - Inches(400),
               height - Inches(450), content, 12, FALSE, "4a5568", "RIGHT", "on",
               "default") >>

\* faulty variant of add_event_card: the card grows with the length of its title
add_event_card_GrowsWithTitle(left, top, width, height, title, content, bg_color) ==
    << AutoShape("ROUNDED_RECTANGLE", left, top, width, height + Len(title) * Inches(100),
                 bg_color),
       TextBox(left + Inches(200), top + Inches(150), width - Inches(400),
               Inches(500), title, 18, TRUE, "WHITE", "RIGHT", "default", "default"),
       TextBox(left + Inches(200), top + Inches(600), width - Inches(400),
               height - Inches(800), content, 12, FALSE, "WHITE", "RIGHT", "on",
               "default") >>

add_event_card(left, top, width, height, title, content, bg_color) ==
    << AutoShape("ROUNDED_RECTANGLE", left, top, width, height, bg_color),
       TextBox(left + Inches(200), top + Inches(150), width - Inches(400),
               Inches(500), title, 18, TRUE, "WHITE", "RIGHT", "default", "default"),
       TextBox(left + Inches(200), top + Inches(600), width - Inches(400),
               height - Inches(800), content, 12, FALSE, "WHITE", "RIGHT", "on",
               "default") >>

----------------------------------------------------------------------------
(* Python list helpers *)

RECURSIVE Flatten(_)
Flatten(ss) == IF ss = <<>> THEN <<>> ELSE Head(ss) \o Flatten(Tail(ss))

\* events[:n]
Take(s, n) == SubSeq(s, 1, IF Len(s) < n THEN Len(s) ELSE n)

\* list[i] for a 0-based i: negative i counts from the end, anything outside
\* -len..len-1 is an IndexError
ListGet(list, i) ==
    IF 0 <= i /\ i < Len(list) THEN [ok |-> TRUE, val |-> list[i + 1]]
    ELSE IF i < 0 /\ 0 - i <= Len(list) THEN [ok |-> TRUE, val |-> list[Len(list) + i + 1]]
    ELSE [ok |-> FALSE, val |-> "IndexError"]

----------------------------------------------------------------------------
(* Slide assemblers: the shapes each adds to its new slide, in order *)

\* the title box every content slide opens with
PageTitle(text) ==
    set_rtl_arabic_text(add_textbox(Inches(800), Inches(600), Inches(11500), Inches(700)),
                        text, 32, TRUE, "DARK_BLUE", "right")

\* shared by create_title_slide and create_thank_you_slide: the two bodies
\* differ in the text of the last box only
CoverShapes(last_text) ==
    << AutoShape("RECTANGLE", Half(SLIDE_WIDTH), Inches(0),
                 Half(SLIDE_WIDTH), SLIDE_HEIGHT, "DARK_BLUE"),
       AutoShape("CHEVRON", Half(SLIDE_WIDTH) - Inches(1000), Inches(0),
                 Inches(2000), SLIDE_HEIGHT, "2c5282"),
       AutoShape("RIGHT_TRIANGLE", Inches(0), SLIDE_HEIGHT - Inches(1500),
                 Inches(1500), Inches(1500), "GREEN"),
       TextBox(Inches(500), Inches(2000), Inches(5500), Inches(1200),
               Txt("SERA 2026"), 60, TRUE, "DARK_BLUE", "RIGHT", "default", "default"),
       TextBox(Inches(500), Inches(3200), Inches(5500), Inches(600),
               Txt("Electricity Regulatory Authority"), 24, FALSE, "LIGHT_BLUE",
               "RIGHT", "default", "default"),
       TextBox(Inches(500), Inches(4000), Inches(5500), Inches(800),
               last_text, 36, TRUE, "DARK_BLUE", "RIGHT", "default", "default") >>

create_title_slide == CoverShapes(Txt("Technical Proposal"))

create_thank_you_slide == CoverShapes(Txt("Thank you"))

toc_items ==
    << [text |-> Txt("Program overview"), page |-> <<"0", "3">>],
       [text |-> Txt("First quarter events (Q1)"), page |-> <<"0", "5">>],
       [text |-> Txt("Second quarter events (Q2)"), page |-> <<"1", "0">>],
       [text |-> Txt("Third quarter events (Q3)"), page |-> <<"1", "4">>],
       [text |-> Txt("Fourth quarter events (Q4)"), page |-> <<"1", "8">>],
       [text |-> Txt("Sports events"), page |-> <<"2", "5">>],
       [text |-> Txt("Budget summary"), page |-> <<"2", "7">>] >>

RECURSIVE toc_loop(_, _, _)
toc_loop(items, i, y) ==
    IF i >= Len(items) THEN <<>>
    ELSE << AutoShape("RECTANGLE", Inches(1000), y + Inches(500), Inches(11000),
                      Inches(40), IF i % 2 = 0 THEN "GREEN" ELSE "DARK_BLUE"),
            set_rtl_arabic_text(add_textbox(Inches(2000), y, Inches(9000), Inches(500)),
                                items[i + 1].text, 20, TRUE, "DARK_BLUE", "right"),
            TextBox(Inches(1000), y, Inches(800), Inches(500), items[i + 1].page,
                    20, TRUE, "LIGHT_BLUE", "LEFT", "default", "default") >>
         \o toc_loop(items, i + 1, y + Inches(700))

create_toc_slide ==
    add_top_border \o add_bottom_border(2)
    \o << set_rtl_arabic_text(add_textbox(Inches(800), Inches(600), Inches(11500),
                                          Inches(800)),
                              Txt("Contents"), 44, TRUE, "DARK_BLUE", "right") >>
    \o toc_loop(toc_items, 0, Inches(1600))

\* faulty variant of GridX: the column taken from the row computation
GridX_ByRow(start_x, i, columns, card_width, gap) ==
    start_x + (i \div columns) * (card_width + gap)

\* col = i % columns; x = start_x + col * (card_width + gap)
GridX(start_x, i, columns, card_width, gap) ==
    start_x + (i % columns) * (card_width + gap)

\* row = i // columns; card_y = y + row * (card_height + gap)
GridY(start_y, i, columns, card_height, gap) ==
    start_y + (i \div columns) * (card_height + gap)

\* faulty variant of overview_cards: the Q4 card counts one event less
overview_cards_Q4Fifteen ==
    << [title |-> Txt("Total events"), value |-> Counted(44, " event")],
       [title |-> Txt("Q1 events"), value |-> Counted(9, " events")],
       [title |-> Txt("Q2 events"), value |-> Counted(8, " events")],
       [title |-> Txt("Q3 events"), value |-> Counted(8, " events")],
       [title |-> Txt("Q4 events"), value |-> Counted(15, " event")],
       [title |-> Txt("Sports events"), value |-> Counted(3, " events")] >>

overview_cards ==
    << [title |-> Txt("Total events"), value |-> Counted(44, " event")],
       [title |-> Txt("Q1 events"), value |-> Counted(9, " events")],
       [title |-> Txt("Q2 events"), value |-> Counted(8, " events")],
       [title |-> Txt("Q3 events"), value |-> Counted(8, " events")],
       [title |-> Txt("Q4 events"), value |-> Counted(16, " event")],
       [title |-> Txt("Sports events"), value |-> Counted(3, " events")] >>

create_overview_slide ==
    add_top_border \o add_bottom_border(3)
    \o << PageTitle(Txt("Program overview")) >>
    \o Flatten([n \in 1..Len(overview_cards) |->
            LET i == n - 1 IN
            add_info_card(GridX(Inches(800), i, 3, Inches(3500), Inches(300)),
                          GridY(Inches(1500), i, 3, Inches(1100), Inches(200)),
                          Inches(3500), Inches(1100), overview_cards[n].title,
                          overview_cards[n].value, "DARK_BLUE")])
    \o add_detail_box(Inches(800), Inches(4000), Inches(11500), Inches(700),
                      Txt("Location"), Txt("All events in Riyadh"),
                      "LIGHT_GRAY", "DARK_BLUE")
    \o add_detail_box(Inches(800), Inches(4800), Inches(11500), Inches(700),
                      Txt("Agency commission"), Txt("15% on all events"),
                      "LIGHT_GRAY", "DARK_BLUE")

categories ==
    << [title |-> Txt("Conferences and celebrations"), content |-> Txt("category 1 events")],
       [title |-> Txt("National celebrations"), content |-> Txt("category 2 events")],
       [title |-> Txt("Health awareness"), content |-> Txt("category 3 events")],
       [title |-> Txt("Professional development"), content |-> Txt("category 4 events")],
       [title |-> Txt("Social responsibility"), content |-> Txt("category 5 events")],
       [title |-> Txt("Family events"), content |-> Txt("category 6 events")] >>

create_categories_slide ==
    add_top_border \o add_bottom_border(4)
    \o << PageTitle(Txt("Event categories")) >>
    \o Flatten([n \in 1..Len(categories) |->
            LET i == n - 1
                x == GridX(Inches(800), i, 3, Inches(3700), Inches(200))
                card_y == GridY(Inches(1500), i, 3, Inches(1500), Inches(200))
            IN << AutoShape("ROUNDED_RECTANGLE", x, card_y, Inches(3700),
                            Inches(1500), "DARK_BLUE"),
                  TextBox(x + Inches(100), card_y + Inches(100),
                          Inches(3700) - Inches(200), Inches(400),
                          categories[n].title, 16, TRUE, "68d391", "CENTER",
                          "default", "default"),
                  TextBox(x + Inches(100), card_y + Inches(500),
                          Inches(3700) - Inches(200), Inches(1500) - Inches(600),
                          categories[n].content, 12, FALSE, "WHITE", "CENTER",
                          "on", "default") >>])

\* faulty variant of create_section_divider: the divider has no top border
create_section_divider_NoTopBorder(section_title, section_subtitle, subtitle_detail, page_num) ==
    add_bottom_border(page_num)
    \o << TextBox(Inches(800), Inches(2500), Inches(11500), Inches(600),
                  section_subtitle, 26, FALSE, "LIGHT_BLUE", "CENTER", "default",
                  "default"),
          TextBox(Inches(800), Inches(3200), Inches(11500), Inches(1000),
                  section_title, 50, TRUE, "DARK_BLUE", "CENTER", "default",
                  "default"),
          TextBox(Inches(800), Inches(4300), Inches(11500), Inches(500),
                  subtitle_detail, 18, FALSE, "718096", "CENTER", "default",
                  "default") >>

create_section_divider(section_title, section_subtitle, subtitle_detail, page_num) ==
    add_top_border \o add_bottom_border(page_num)
    \o << TextBox(Inches(800), Inches(2500), Inches(11500), Inches(600),
                  section_subtitle, 26, FALSE, "LIGHT_BLUE", "CENTER", "default",
                  "default"),
          TextBox(Inches(800), Inches(3200), Inches(11500), Inches(1000),
                  section_title, 50, TRUE, "DARK_BLUE", "CENTER", "default",
                  "default"),
          TextBox(Inches(800), Inches(4300), Inches(11500), Inches(500),
                  subtitle_detail, 18, FALSE, "718096", "CENTER", "default",
                  "default") >>

RECURSIVE detail_loop(_, _)
detail_loop(details, y) ==
    IF details = <<>> THEN <<>>
    ELSE add_detail_box(Inches(800), y, Inches(11500), Inches(800),
                        Head(details)[1], Head(details)[2], "LIGHT_GRAY", "DARK_BLUE")
         \o detail_loop(Tail(details), y + Inches(900))

create_event_detail_slide(title, date, attendance, level, venue, stage, av, services, page_num) ==
    LET cards == << <<Txt("Date"), date>>,
                    <<Txt("Expected attendance"), attendance>>,
                    <<Txt("Level"), level>> >>
        details == << <<Txt("Proposed venue"), venue>>,
                      <<Txt("Stage and decor"), stage>>,
                      <<Txt("Audio-visual requirements"), av>>,
                      <<Txt("Main services"), services>> >>
    IN add_top_border \o add_bottom_border(page_num)
       \o << PageTitle(title) >>
       \o Flatten([n \in 1..Len(cards) |->
               add_info_card(Inches(800) + (n - 1) * (Inches(3500) + Inches(300)),
                             Inches(1500), Inches(3500), Inches(1000),
                             cards[n][1], cards[n][2], "DARK_BLUE")])
       \o detail_loop(details, Inches(2700))

\* colors of create_two_event_slide
two_event_colors == <<"DARK_BLUE", "GREEN", "b83280", "c05621", "6b46c1">>

\* faulty variant of three_event_colors: the first three colors of the two-event list
three_event_colors_AsTwoEvent == <<"DARK_BLUE", "GREEN", "b83280">>

\* colors of create_three_event_slide
three_event_colors == <<"DARK_BLUE", "b83280", "GREEN">>

\* faulty variant of PickColor: the index taken as 1-based
PickColor_OffByOne(colors, color_idx) == ListGet(colors, (color_idx + 1) % Len(colors))

\* faulty variant of PickColor: the index used without the modulo
PickColor_NoModulo(colors, color_idx) == ListGet(colors, color_idx)

\* color = colors[color_idx % len(colors)]
PickColor(colors, color_idx) == ListGet(colors, color_idx % Len(colors))

\* for ... in enumerate(events): color lookup, add_event_card, y += step;
\* shared by create_two_event_slide and create_three_event_slide
RECURSIVE event_card_loop(_, _, _, _, _)
event_card_loop(events, colors, y, card_height, gap) ==
    IF events = <<>> THEN <<>>
    ELSE LET e == Head(events)
             color == PickColor(colors, e.color_idx)
         IN IF ~color.ok THEN << Raise(color.val) >>
            ELSE add_event_card(Inches(800), y, Inches(11500), card_height,
                                e.title, e.content, color.val)
                 \o event_card_loop(Tail(events), colors, y + card_height + gap,
                                    card_height, gap)

create_two_event_slide(page_title, events, page_num) ==
    add_top_border \o add_bottom_border(page_num)
    \o << PageTitle(page_title) >>
    \o event_card_loop(events, two_event_colors, Inches(1500), Inches(2300),
                       Inches(200))

create_three_event_slide(page_title, events, page_num) ==
    add_top_border \o add_bottom_border(page_num)
    \o << PageTitle(page_title) >>
    \o event_card_loop(events, three_event_colors, Inches(1500), Inches(1500),
                       Inches(150))

\* events[:4]
FourEvents(events) == Take(events, 4)

create_four_event_slide(page_title, events, page_num, extra_detail) ==
    LET shown == FourEvents(events) IN
    add_top_border \o add_bottom_border(page_num)
    \o << PageTitle(page_title) >>
    \o Flatten([n \in 1..Len(shown) |->
            LET i == n - 1
                x == GridX(Inches(800), i, 2, Inches(5600), Inches(200))
                y == GridY(Inches(1500), i, 2, Inches(1400), Inches(200))
            IN << AutoShape("ROUNDED_RECTANGLE", x, y, Inches(5600), Inches(1400),
                            "DARK_BLUE"),
                  TextBox(x + Inches(150), y + Inches(100),
                          Inches(5600) - Inches(300), Inches(400),
                          shown[n].title, 14, TRUE, "68d391", "RIGHT",
                          "default", "default"),
                  TextBox(x + Inches(150), y + Inches(500),
                          Inches(5600) - Inches(300), Inches(1400) - Inches(600),
                          shown[n].content, 11, FALSE, "WHITE", "RIGHT", "on",
                          "default") >>])
    \o (IF extra_detail # <<>>
        THEN add_detail_box(Inches(800), Inches(4500), Inches(11500), Inches(800),
                            extra_detail[1], extra_detail[2], "LIGHT_GRAY", "DARK_BLUE")
        ELSE <<>>)

sports ==
    << [title |-> <<"S">> \o Numbered(1, " Football tournament"), content |-> Txt("sports event S1"),
        color |-> "GREEN"],
       [title |-> <<"S">> \o Numbered(2, " Padel tournament"), content |-> Txt("sports event S2"),
        color |-> "LIGHT_BLUE"],
       [title |-> <<"S">> \o Numbered(3, " Walking challenge + SERA Friday"),
        content |-> Txt("sports event S3"), color |-> "ed8936"] >>

RECURSIVE sports_loop(_, _, _)
sports_loop(items, y, card_height) ==
    IF items = <<>> THEN <<>>
    ELSE add_event_card(Inches(800), y, Inches(11500), card_height,
                        Head(items).title, Head(items).content, Head(items).color)
         \o sports_loop(Tail(items), y + card_height + Inches(150), card_height)

\* faulty variant of create_sports_slide: the page number of the slide before it
create_sports_slide_Page25 ==
    add_top_border \o add_bottom_border(25)
    \o << PageTitle(Txt("Sports events")) >>
    \o sports_loop(sports, Inches(1500), Inches(1500))

create_sports_slide ==
    add_top_border \o add_bottom_border(26)
    \o << PageTitle(Txt("Sports events")) >>
    \o sports_loop(sports, Inches(1500), Inches(1500))

budget_cards ==
    << [title |-> Txt("Q1 events"), value |-> Counted(9, " events")],
       [title |-> Txt("Q2 events"), value |-> Counted(8, " events")],
       [title |-> Txt("Q3 events"), value |-> Counted(8, " events")],
       [title |-> Txt("Q4 events"), value |-> Counted(16, " event")],
       [title |-> Txt("Sports events"), value |-> Counted(3, " events")],
       [title |-> Txt("Total events"), value |-> Counted(44, " event")] >>

create_budget_slide ==
    add_top_border \o add_bottom_border(28)
    \o << PageTitle(Txt("Budget summary")) >>
    \o Flatten([n \in 1..Len(budget_cards) |->
            LET i == n - 1 IN
            add_info_card(GridX(Inches(800), i, 3, Inches(3500), Inches(300)),
                          GridY(Inches(1500), i, 3, Inches(1100), Inches(200)),
                          Inches(3500), Inches(1100), budget_cards[n].title,
                          budget_cards[n].value,
                          IF i = 5 THEN "GREEN" ELSE "DARK_BLUE")])
    \o add_detail_box(Inches(800), Inches(4000), Inches(11500), Inches(700),
                      Txt("Total before tax (SAR)"), Txt("[to be determined]"),
                      "LIGHT_GRAY", "DARK_BLUE")
    \o add_detail_box(Inches(800), Inches(4800), Inches(11500), Inches(700),
                      Txt("VAT (15%)"), Txt("[to be determined]"),
                      "LIGHT_GRAY", "DARK_BLUE")
    \o << AutoShape("ROUNDED_RECTANGLE", Inches(800), Inches(5600), Inches(11500),
                    Inches(700), "DARK_BLUE"),
          AutoShape("RECTANGLE", Inches(12220), Inches(5600), Inches(80),
                    Inches(700), "GREEN"),
          TextBox(Inches(1000), Inches(5650), Inches(11000), Inches(300),
                  Txt("Grand total including tax"), 14, TRUE, "WHITE", "RIGHT",
                  "default", "default"),
          TextBox(Inches(1000), Inches(5950), Inches(11000), Inches(300),
                  Txt("[to be determined]"), 18, TRUE, "68d391", "RIGHT",
                  "default", "default") >>

----------------------------------------------------------------------------
(* Calls of the assemblers, and the content script of main() *)

Ev(title, content, color_idx) ==
    [title |-> title, content |-> Txt(content), color_idx |-> color_idx]

Ev2(title, content) == [title |-> title, content |-> Txt(content)]

CallTitle == [fn |-> "create_title_slide"]
CallToc == [fn |-> "create_toc_slide"]
CallOverview == [fn |-> "create_overview_slide"]
CallCategories == [fn |-> "create_categories_slide"]
CallSports == [fn |-> "create_sports_slide"]
CallBudget == [fn |-> "create_budget_slide"]
CallThankYou == [fn |-> "create_thank_you_slide"]

CallDivider(section_title, section_subtitle, subtitle_detail, page_num) ==
    [fn |-> "create_section_divider", section_title |-> section_title,
     section_subtitle |-> section_subtitle, subtitle_detail |-> subtitle_detail,
     page_num |-> page_num]

CallDetail(title, date, attendance, level, venue, stage, av, services, page_num) ==
    [fn |-> "create_event_detail_slide", title |-> title, date |-> date,
     attendance |-> attendance, level |-> level, venue |-> venue,
     stage |-> stage, av |-> av, services |-> services, page_num |-> page_num]

CallTwo(page_title, events, page_num) ==
    [fn |-> "create_two_event_slide", page_title |-> page_title,
     events |-> events, page_num |-> page_num]

CallThree(page_title, events, page_num) ==
    [fn |-> "create_three_event_slide", page_title |-> page_title,
     events |-> events, page_num |-> page_num]

CallFour(page_title, events, page_num, extra_detail) ==
    [fn |-> "create_four_event_slide", page_title |-> page_title,
     events |-> events, page_num |-> page_num, extra_detail |-> extra_detail]

\* the shapes the called assembler adds after prs.slides.add_slide
Ops(c) ==
    CASE c.fn = "create_title_slide" -> create_title_slide
      [] c.fn = "create_toc_slide" -> create_toc_slide
      [] c.fn = "create_overview_slide" -> create_overview_slide
      [] c.fn = "create_categories_slide" -> create_categories_slide
      [] c.fn = "create_section_divider" ->
            create_section_divider(c.section_title, c.section_subtitle,
                                   c.subtitle_detail, c.page_num)
      [] c.fn = "create_event_detail_slide" ->
            create_event_detail_slide(c.title, c.date, c.attendance, c.level,
                                      c.venue, c.stage, c.av, c.services, c.page_num)
      [] c.fn = "create_two_event_slide" ->
            create_two_event_slide(c.page_title, c.events, c.page_num)
      [] c.fn = "create_three_event_slide" ->
            create_three_event_slide(c.page_title, c.events, c.page_num)
      [] c.fn = "create_four_event_slide" ->
            create_four_event_slide(c.page_title, c.events, c.page_num, c.extra_detail)
      [] c.fn = "create_sports_slide" -> create_sports_slide
      [] c.fn = "create_budget_slide" -> create_budget_slide
      [] c.fn = "create_thank_you_slide" -> create_thank_you_slide

\* the body of main() between the page set-up and prs.save
MainScript ==
    << CallTitle,
       CallToc,
       CallOverview,
       CallCategories,
       CallDivider(Txt("First quarter events"), Txt("Section one"),
                   Counted(9, " events | January - March 2026"), 5),
       CallDetail(Numbered(1, " Annual meeting 2026"), Txt("3 February"), Txt("300 people"),
                  Txt("Major"), Txt("venue 1"), Txt("stage 1"), Txt("av 1"),
                  Txt("services 1"), 6),
       CallTwo(Txt("First quarter events"),
               << Ev(Numbered(2, " Founding Day - 22 February"), "details 2", 0),
                  Ev(Numbered(3, " Employee appreciation day - 2 March"), "details 3", 1) >>, 7),
       CallTwo(Txt("First quarter events"),
               << Ev(Numbered(4, " International Women's Day - 8 March"), "details 4", 2),
                  Ev(Numbered(5, " Saudi Flag Day - 11 March"), "details 5", 1) >>, 8),
       CallTwo(Txt("First quarter events"),
               << Ev(Numbered(6, " Ramadan iftar - mid March"), "details 6", 0),
                  Ev(Numbered(7, " Mother's Day - 21 March"), "details 7", 2) >>, 9),
       CallTwo(Txt("First quarter events"),
               << Ev(Numbered(8, " Saudi Green Initiative - 27 March"), "details 8", 1),
                  Ev(Numbered(9, " Ehsan charity campaign - March"), "details 9", 0) >>, 10),
       CallDivider(Txt("Second quarter events"), Txt("Section two"),
                   Counted(8, " events | April - June 2026"), 11),
       CallDetail(Numbered(10, " Eid al-Fitr celebration"), Txt("Early April"),
                  Txt("300 people"), Txt("Major"), Txt("venue 10"), Txt("stage 10"),
                  Txt("av 10"), Txt("services 10"), 12),
       CallTwo(Txt("Second quarter events"),
               << Ev(Numbered(11, " Creativity and Innovation Day - 21 April"), "details 11", 3),
                  Ev(Numbered(12, " International Tea Day - 21 May"), "details 12", 0) >>, 13),
       CallFour(Txt("Second quarter events"),
                << Ev2(Numbered(13, " Kiswat Farah - May"), "details 13"),
                   Ev2(Numbered(14, " Anti-smoking - 31 May"), "details 14"),
                   Ev2(Numbered(15, " Blood donation day - 14 June"), "details 15"),
                   Ev2(Numbered(16, " Father's Day - 15 June"), "details 16") >>, 14,
                << Numbered(17, " Eid al-Adha celebration - mid June"), Txt("details 17") >>),
       CallDivider(Txt("Third quarter events"), Txt("Section three"),
                   Counted(8, " events | July - September 2026"), 15),
       CallDetail(Numbered(18, " SERA summer"), Txt("20 July"), Txt("500 people"),
                  Txt("Major"), Txt("venue 18"), Txt("stage 18"), Txt("av 18"),
                  Txt("services 18"), 16),
       CallFour(Txt("Third quarter events"),
                << Ev2(Numbered(19, " SERA winter - 19 August"), "details 19"),
                   Ev2(Numbered(20, " First aid - 13 September"), "details 20"),
                   Ev2(Numbered(21, " Tazawwad - September"), "details 21"),
                   Ev2(Numbered(22, " Alzheimer's - 21 September"), "details 22") >>, 17, <<>>),
       CallThree(Txt("Third quarter events"),
                 << Ev(Numbered(23, " What is our role - September"), "details 23", 0),
                    Ev(Numbered(24, " Saudi National Day (96) - 23 September"), "details 24", 2),
                    Ev(Numbered(25, " Environment week - Q3"), "details 25", 0) >>, 18),
       CallDivider(Txt("Fourth quarter events"), Txt("Section four"),
                   Counted(16, " event | October - December 2026"), 19),
       CallThree(Txt("Fourth quarter events"),
                 << Ev(Numbered(26, " International Coffee Day - 1 October"), "details 26", 0),
                    Ev(Numbered(27, " Breast cancer awareness - October"), "details 27", 1),
                    Ev(Numbered(28, " Cybersecurity exhibition - October"), "details 28", 0) >>, 20),
       CallFour(Txt("Fourth quarter events"),
                << Ev2(Numbered(29, " Mental health - 10 October"), "details 29"),
                   Ev2(Numbered(30, " Savings day - 31 October"), "details 30"),
                   Ev2(Numbered(31, " Quality day - 10 November"), "details 31"),
                   Ev2(Numbered(32, " Flu vaccination - November"), "details 32") >>, 21, <<>>),
       CallFour(Txt("Fourth quarter events"),
                << Ev2(Numbered(33, " Diabetes day - 14 November"), "details 33"),
                   Ev2(Numbered(34, " Men's day - 19 November"), "details 34"),
                   Ev2(Numbered(35, " Children's day - 20 November"), "details 35"),
                   Ev2(Numbered(36, " Volunteer day - 5 December"), "details 36") >>, 22, <<>>),
       CallFour(Txt("Fourth quarter events"),
                << Ev2(Numbered(37, " Anti-corruption - 9 December"), "details 37"),
                   Ev2(Numbered(38, " Transformation activities - Q4"), "details 38"),
                   Ev2(Numbered(39, " Ideal office - Q4"), "details 39"),
                   Ev2(Numbered(40, " Arabic language day - 18 December"), "details 40") >>, 23, <<>>),
       CallDetail(Numbered(41, " Year-end party"), Txt("Late December"), Txt("300 people"),
                  Txt("Major"), Txt("venue 41"), Txt("stage 41"), Txt("av 41"),
                  Txt("services 41"), 24),
       CallDivider(Txt("Sports events"), Txt("Section five"),
                   Counted(3, " sports events"), 25),
       CallSports,
       CallDivider(Txt("Budget summary"), Txt("Section six"),
                   Txt("Cost overview"), 27),
       CallBudget,
       CallThankYou >>

----------------------------------------------------------------------------
(* Inputs for calling the assemblers one at a time *)

MaxColorEvents == 3
MaxEvents == 5
MaxPageNum == 110

\* every index of the longer palette, one past its end, and -1 for
\* Python's % on a negative index
ColorIdxs == (0 - 1)..Len(two_event_colors)

EvTitle(n) == <<"title">> \o Decimal(n)
EvBody(n) == <<"body">> \o Decimal(n)

\* every list of at most MaxColorEvents (title, body, color-index) tuples
ColorEventLists ==
    UNION {{[n \in 1..len |->
               [title |-> EvTitle(n), content |-> EvBody(n), color_idx |-> f[n]]] :
            f \in [1..len -> ColorIdxs]} : len \in 0..MaxColorEvents}

\* the list of len (title, body) tuples
PlainEvents(len) == [n \in 1..len |-> [title |-> EvTitle(n), content |-> EvBody(n)]]

ExtraDetails == {<<>>, <<Txt("extra title"), Txt("extra body")>>}

CardPages == {9, 10}

AsmCalls ==
    {CallTitle, CallToc, CallOverview, CallCategories, CallSports, CallBudget,
     CallThankYou}
    \cup {CallDivider(Txt("section"), Txt("subtitle"), Txt("detail"), p) :
          p \in 0..MaxPageNum}
    \cup {CallDetail(Txt("event"), Txt("date"), Txt("attendance"), Txt("level"),
                     Txt("venue"), Txt("stage"), Txt("av"), Txt("services"), p) :
          p \in CardPages}
    \cup {CallTwo(Txt("page"), ev, 8 + Len(ev)) : ev \in ColorEventLists}
    \cup {CallThree(Txt("page"), ev, 8 + Len(ev)) : ev \in ColorEventLists}
    \cup {CallFour(Txt("page"), PlainEvents(len), p, x) :
          len \in 0..MaxEvents, p \in CardPages, x \in ExtraDetails}

----------------------------------------------------------------------------
(* The run of main().  An exception nothing catches ends the process: the
   deck in memory and the position in main() are gone (slides = <<>>,
   pc = 0), what is left is what was done to the output file. *)

\* faulty variant of TargetSlide: the assembler draws on the first slide of the deck
TargetSlide_First(deck) == 1

\* slide = prs.slides.add_slide(...): the slide an assembler draws on
TargetSlide(deck) == Len(deck)

\* the assembler call in progress and the next shape it adds
CurOps == Ops(script[pc])

Init ==
    /\ page = DefaultPage
    /\ slides = <<>>
    /\ script = MainScript
    /\ pc = 1
    /\ k = 0
    /\ phase = "init"
    /\ err = "none"
    /\ saves = 0
    /\ written = FALSE

\* the same driver over a content script of one assembler call
InitAsm ==
    /\ page = DefaultPage
    /\ slides = <<>>
    /\ script \in {<<c>> : c \in AsmCalls}
    /\ pc = 1
    /\ k = 0
    /\ phase = "init"
    /\ err = "none"
    /\ saves = 0
    /\ written = FALSE

\* prs = Presentation(); prs.slide_width = ...; prs.slide_height = ...
SetPageSize ==
    /\ phase = "init"
    /\ page' = [w |-> SLIDE_WIDTH, h |-> SLIDE_HEIGHT]
    /\ phase' = "call"
    /\ UNCHANGED <<slides, script, pc, k, err, saves, written>>

\* faulty variant of AddSlide: the closing slide is drawn over the slide before it
AddSlide_ReusesLast ==
    /\ phase = "call"
    /\ pc <= Len(script)
    /\ slides' = IF script[pc].fn = "create_thank_you_slide" /\ slides # <<>>
                 THEN slides ELSE Append(slides, <<>>)
    /\ k' = 0
    /\ phase' = "shape"
    /\ UNCHANGED <<page, script, pc, err, saves, written>>

\* the next assembler is called and adds its blank slide
AddSlide ==
    /\ phase = "call"
    /\ pc <= Len(script)
    /\ slides' = Append(slides, <<>>)
    /\ k' = 0
    /\ phase' = "shape"
    /\ UNCHANGED <<page, script, pc, err, saves, written>>

\* slide.shapes.add_shape / add_textbox, or the exception raised in its place
AddShape ==
    /\ phase = "shape"
    /\ k < Len(CurOps)
    /\ LET op == CurOps[k + 1] IN
       IF op.kind = "RAISE"
       THEN /\ phase' = "failed"
            /\ err' = op.err
            /\ slides' = <<>>
            /\ pc' = 0
       ELSE /\ slides' = [slides EXCEPT ![TargetSlide(slides)] = Append(@, Unstyled(op))]
            /\ phase' = "style"
            /\ UNCHANGED <<err, pc>>
    /\ UNCHANGED <<page, script, k, saves, written>>

\* faulty variant of StyleShape: the fill color is drawn afresh in every run
StyleShape_AnyFill ==
    /\ phase = "style"
    /\ \E c \in {"DARK_BLUE", "GREEN"} :
          LET t == TargetSlide(slides) IN
          slides' = [slides EXCEPT ![t][Len(slides[t])] = [CurOps[k + 1] EXCEPT !.fill = c]]
    /\ k' = k + 1
    /\ phase' = "shape"
    /\ UNCHANGED <<page, script, pc, err, saves, written>>

\* faulty variant of StyleShape: the assignments land on the slide's first shape
StyleShape_FirstShape ==
    /\ phase = "style"
    /\ LET t == TargetSlide(slides) IN
       slides' = [slides EXCEPT ![t][1] = CurOps[k + 1]]
    /\ k' = k + 1
    /\ phase' = "shape"
    /\ UNCHANGED <<page, script, pc, err, saves, written>>

\* the assignments to the fill, line and paragraph of the shape just added
StyleShape ==
    /\ phase = "style"
    /\ LET t == TargetSlide(slides) IN
       slides' = [slides EXCEPT ![t][Len(slides[t])] = CurOps[k + 1]]
    /\ k' = k + 1
    /\ phase' = "shape"
    /\ UNCHANGED <<page, script, pc, err, saves, written>>

\* the assembler returns to main()
Return ==
    /\ phase = "shape"
    /\ k = Len(CurOps)
    /\ pc' = pc + 1
    /\ k' = 0
    /\ phase' = "call"
    /\ UNCHANGED <<page, slides, script, err, saves, written>>

\* faulty variant of Save: the deck is saved after any slide, not after the last
Save_AfterAnySlide ==
    /\ phase = "call"
    /\ pc > 1
    /\ saves' = saves + 1
    /\ written' = TRUE
    /\ phase' = IF pc > Len(script) THEN "done" ELSE "call"
    /\ UNCHANGED <<page, slides, script, pc, k, err>>

\* prs.save(output_path) succeeds
Save ==
    /\ phase = "call"
    /\ pc > Len(script)
    /\ saves' = saves + 1
    /\ written' = TRUE
    /\ phase' = "done"
    /\ UNCHANGED <<page, slides, script, pc, k, err>>

\* prs.save(output_path) raises: nothing, or a partial file, is on disk
SaveFail ==
    /\ phase = "call"
    /\ pc > Len(script)
    /\ saves' = saves + 1
    /\ written' \in BOOLEAN
    /\ phase' = "failed"
    /\ err' = "SaveError"
    /\ slides' = <<>>
    /\ pc' = 0
    /\ UNCHANGED <<page, script, k>>

\* the library rejects the call about to be made; nothing catches it
LibraryFail ==
    /\ \/ phase = "init"
       \/ phase = "call" /\ pc <= Len(script)
       \/ phase = "shape" /\ k < Len(CurOps)
       \/ phase = "style"
    /\ phase' = "failed"
    /\ err' = "LibraryError"
    /\ slides' = <<>>
    /\ pc' = 0
    /\ k' = 0
    /\ UNCHANGED <<page, script, saves, written>>

Next ==
    \/ SetPageSize
    \/ AddSlide
    \/ AddShape
    \/ StyleShape
    \/ Return
    \/ Save
    \/ SaveFail
    \/ LibraryFail

Spec == Init /\ [][Next]_vars

SpecAsm == InitAsm /\ [][Next]_vars

----------------------------------------------------------------------------
(* set_rtl_arabic_text called on its own, on a text box that may have been
   written to before and with any value for align *)

\* the three values the chain knows, and others: another word, another case,
\* the empty string
AlignArgs == {"right", "center", "left", "justify", "RIGHT", ""}

\* the paragraph alignment of the text box before the call
PriorAligns == {"default", "LEFT", "CENTER", "RIGHT"}

FontSizes == {18, 44}

TextColors == {"DARK_BLUE", "WHITE"}

\* the text box as the caller hands it over
PriorBoxes ==
    {[add_textbox(Inches(800), Inches(600), Inches(11500), Inches(700))
        EXCEPT !.align = a, !.text = t, !.wrap = w] :
     a \in PriorAligns, t \in {<<>>, Txt("old text")}, w \in {"default", "off"}}

RtlCalls ==
    {[fn |-> "set_rtl_arabic_text", shape |-> b, text |-> Txt("new text"),
      font_size |-> fs, bold |-> bd, color |-> c, align |-> a] :
     b \in PriorBoxes, fs \in FontSizes, bd \in BOOLEAN, c \in TextColors,
     a \in AlignArgs}

InitRtl ==
    /\ page = [w |-> SLIDE_WIDTH, h |-> SLIDE_HEIGHT]
    /\ script \in {<<c>> : c \in RtlCalls}
    /\ slides = << << script[1].shape >> >>
    /\ pc = 1
    /\ k = 0
    /\ phase = "rtl"
    /\ err = "none"
    /\ saves = 0
    /\ written = FALSE

\* the body of set_rtl_arabic_text, lines 83-96; none of its statements raises
\* on a text box
ApplyRtl ==
    /\ phase = "rtl"
    /\ LET c == script[pc] IN
       slides' = [slides EXCEPT ![1][1] =
                     set_rtl_arabic_text(@, c.text, c.font_size, c.bold, c.color, c.align)]
    /\ phase' = "returned"
    /\ UNCHANGED <<page, script, pc, k, err, saves, written>>

NextRtl == ApplyRtl

SpecRtl == InitRtl /\ [][NextRtl]_vars

----------------------------------------------------------------------------
(* Vocabulary of the properties *)

\* slide j is the one the j-th call of the script built; it is complete once
\* that call has returned
Complete(j) == j \in 1..Len(slides) /\ (j < Len(slides) \/ phase \in {"call", "done"})

ShapesOn(j) == {slides[j][n] : n \in 1..Len(slides[j])}

Right(s) == s.left + s.width
Bottom(s) == s.top + s.height

InPage(s) ==
    /\ s.left >= 0
    /\ s.top >= 0
    /\ Right(s) <= Inches(13333)
    /\ Bottom(s) <= Inches(7500)

\* b lies inside a
Inside(b, a) ==
    /\ a.left <= b.left
    /\ a.top <= b.top
    /\ Right(b) <= Right(a)
    /\ Bottom(b) <= Bottom(a)

Overlap(a, b) ==
    /\ a.left < Right(b)
    /\ b.left < Right(a)
    /\ a.top < Bottom(b)
    /\ b.top < Bottom(a)

\* the positions, in drawing order, of the rounded rectangles of the given size
CardPositions(j, width, height) ==
    {n \in 1..Len(slides[j]) :
        /\ slides[j][n].kind = "ROUNDED_RECTANGLE"
        /\ slides[j][n].width = width
        /\ slides[j][n].height = height}

\* the position of the i-th (0-based) card among them
NthCard(j, width, height, i) ==
    CHOOSE n \in CardPositions(j, width, height) :
        Cardinality({m \in CardPositions(j, width, height) : m < n}) = i

CardCount(j, width, height) == Cardinality(CardPositions(j, width, height))

Min(a, b) == IF a < b THEN a ELSE b

----------------------------------------------------------------------------
(* C1 *)

\* C1: in the deck built by main(), every shape and every text box on every
\* slide lies inside the 13.333 in x 7.5 in page: left >= 0, top >= 0,
\* left + width <= page width, top + height <= page height.
C1_ShapesInsidePage ==
    \A j \in 1..Len(slides) :
        /\ page = [w |-> Inches(13333), h |-> Inches(7500)]
        /\ \A s \in ShapesOn(j) : InPage(s)

\* the whole deck of main() has been built and saved
C1_Witness ==
    /\ phase = "done"
    /\ Len(slides) = 29
    /\ \E s \in ShapesOn(1) : Right(s) >= Inches(13333) - 1

----------------------------------------------------------------------------
(* C2, C3 *)

CardAssemblers ==
    {"create_two_event_slide", "create_three_event_slide", "create_four_event_slide"}

Capacity(fn) ==
    CASE fn = "create_two_event_slide" -> 2
      [] fn = "create_three_event_slide" -> 3
      [] fn = "create_four_event_slide" -> 4

\* width and height of the cards each assembler draws
CardWidth(fn) ==
    CASE fn \in {"create_two_event_slide", "create_three_event_slide"} -> Inches(11500)
      [] fn = "create_four_event_slide" -> Inches(5600)
      [] fn \in {"create_overview_slide", "create_budget_slide"} -> Inches(3500)
      [] fn = "create_categories_slide" -> Inches(3700)

CardHeight(fn) ==
    CASE fn = "create_two_event_slide" -> Inches(2300)
      [] fn = "create_three_event_slide" -> Inches(1500)
      [] fn = "create_four_event_slide" -> Inches(1400)
      [] fn \in {"create_overview_slide", "create_budget_slide"} -> Inches(1100)
      [] fn = "create_categories_slide" -> Inches(1500)

Cards(j) == CardPositions(j, CardWidth(script[j].fn), CardHeight(script[j].fn))

\* C2: each card assembler, given N items, places exactly min(N, capacity)
\* cards (capacity 2, 3 and 4 for the two-, three- and four-event slide), and
\* no two placed cards overlap.
C2_MinOfNAndCapacityCards ==
    \A j \in 1..Len(slides) :
        (Complete(j) /\ script[j].fn \in CardAssemblers) =>
            /\ Cardinality(Cards(j)) = Min(Len(script[j].events), Capacity(script[j].fn))
            /\ \A m, n \in Cards(j) :
                   m # n => ~Overlap(slides[j][m], slides[j][n])

GridAssemblers ==
    {"create_overview_slide", "create_categories_slide", "create_budget_slide",
     "create_four_event_slide"}

Columns(fn) == IF fn = "create_four_event_slide" THEN 2 ELSE 3

HorizontalGap(fn) ==
    IF fn \in {"create_overview_slide", "create_budget_slide"}
    THEN Inches(300) ELSE Inches(200)

\* C3: in every grid assembler the i-th item (0-based) is placed in column
\* i mod columns and row i div columns: left = start_x + (i mod columns) *
\* (card_width + horizontal gap), top = start_y + (i div columns) *
\* (card_height + vertical gap), with 3 columns (2 for the four-event slide).
C3_GridPlacement ==
    \A j \in 1..Len(slides) :
        script[j].fn \in GridAssemblers =>
            LET fn == script[j].fn IN
            \A i \in 0..(Cardinality(Cards(j)) - 1) :
                LET card == slides[j][NthCard(j, CardWidth(fn), CardHeight(fn), i)] IN
                /\ card.left = Inches(800)
                       + (i % Columns(fn)) * (CardWidth(fn) + HorizontalGap(fn))
                /\ card.top = Inches(1500)
                       + (i \div Columns(fn)) * (CardHeight(fn) + Inches(200))

\* a four-event slide built from five items: four cards, two rows of two
C3_Witness ==
    /\ Len(slides) = 1
    /\ Complete(1)
    /\ script[1].fn = "create_four_event_slide"
    /\ Len(script[1].events) = 5
    /\ Cardinality(Cards(1)) = 4

----------------------------------------------------------------------------
(* C4 *)

\* C4: the deck main() builds for the full content script has exactly 29
\* slides when it is handed to save; each assembler call adds exactly one
\* slide and no slide is ever removed.
C4_TwentyNineSlides ==
    /\ phase = "done" => Len(slides) = 29
    /\ (phase = "call" /\ pc > Len(script)) => Len(slides) = 29
    /\ phase = "call" => Len(slides) = pc - 1
    /\ phase \in {"shape", "style"} => Len(slides) = pc

\* the deck has been handed to save
C4_Witness == phase = "done" /\ saves = 1 /\ Len(slides) = 29

----------------------------------------------------------------------------
(* C5, C6 *)

\* the page-number label: the text box add_bottom_border puts at
\* (0.8 in, page height - 0.5 in), 0.6 in x 0.4 in
IsLabel(s) ==
    /\ s.kind = "TEXTBOX"
    /\ s.left = Inches(800)
    /\ s.top = Inches(7500) - Inches(500)
    /\ s.width = Inches(600)
    /\ s.height = Inches(400)

Labels(j) == {n \in 1..Len(slides[j]) : IsLabel(slides[j][n])}

Digits == {"0", "1", "2", "3", "4", "5", "6", "7", "8", "9"}

DigitValue(c) ==
    CASE c = "0" -> 0 [] c = "1" -> 1 [] c = "2" -> 2 [] c = "3" -> 3
      [] c = "4" -> 4 [] c = "5" -> 5 [] c = "6" -> 6 [] c = "7" -> 7
      [] c = "8" -> 8 [] c = "9" -> 9

\* the number a string of decimal digits denotes
RECURSIVE ParseDecimal(_)
ParseDecimal(t) ==
    IF t = <<>> THEN 0
    ELSE 10 * ParseDecimal(SubSeq(t, 1, Len(t) - 1)) + DigitValue(t[Len(t)])

\* t is n in decimal, zero-padded to two digits and no further
IsPadded(t, n) ==
    /\ Len(t) >= 2
    /\ \A x \in 1..Len(t) : t[x] \in Digits
    /\ ParseDecimal(t) = n
    /\ Len(t) > 2 => t[1] # "0"

Unnumbered == {"create_title_slide", "create_thank_you_slide"}

\* the page number an assembler is given, or the one its body fixes
SuppliedPage(c) ==
    CASE c.fn = "create_toc_slide" -> 2
      [] c.fn = "create_overview_slide" -> 3
      [] c.fn = "create_categories_slide" -> 4
      [] c.fn = "create_sports_slide" -> 26
      [] c.fn = "create_budget_slide" -> 28
      [] OTHER -> c.page_num

\* C5: every slide built by an assembler that takes or fixes a page number
\* carries exactly one page-number label, whose text is that page number in
\* decimal, zero-padded to at least two digits (5 -> "05", 28 -> "28").
C5_OnePaddedLabel ==
    \A j \in 1..Len(slides) :
        (Complete(j) /\ script[j].fn \notin Unnumbered) =>
            /\ Cardinality(Labels(j)) = 1
            /\ \A n \in Labels(j) : IsPadded(slides[j][n].text, SuppliedPage(script[j]))

\* a one-digit page number has been padded
C5_Witness ==
    /\ Complete(1)
    /\ script[1].fn = "create_section_divider"
    /\ script[1].page_num = 5
    /\ \E n \in Labels(1) : slides[1][n].text = <<"0", "5">>

\* C6: in the deck built by main() the page numbers of successive slides are
\* strictly increasing in deck order, and the slide at position k,
\* 2 <= k <= 28, is labelled k.
C6_LabelIsPosition ==
    /\ \A j \in 2..28 :
           Complete(j) =>
               /\ Labels(j) # {}
               /\ \A n \in Labels(j) :
                      /\ \A x \in 1..Len(slides[j][n].text) :
                             slides[j][n].text[x] \in Digits
                      /\ ParseDecimal(slides[j][n].text) = j
    /\ \A i, j \in 1..Len(slides) :
           (i < j /\ Complete(j)) =>
               \A m \in Labels(i), n \in Labels(j) :
                   ParseDecimal(slides[i][m].text) < ParseDecimal(slides[j][n].text)

\* the last numbered slide, the budget slide at position 28, is labelled
C6_Witness ==
    /\ Complete(28)
    /\ \E n \in Labels(28) : slides[28][n].text = <<"2", "8">>

----------------------------------------------------------------------------
(* C7, C8 *)

ColorAssemblers == {"create_two_event_slide", "create_three_event_slide"}

Palette(fn) ==
    IF fn = "create_two_event_slide"
    THEN <<"DARK_BLUE", "GREEN", "b83280", "c05621", "6b46c1">>
    ELSE <<"DARK_BLUE", "b83280", "GREEN">>

\* the i-th (0-based) card of slide j
Card(j, i) == slides[j][NthCard(j, CardWidth(script[j].fn), CardHeight(script[j].fn), i)]

\* C7 as claimed: in the color-cycling assemblers the fill color of the i-th
\* card of the input list (i its 0-based position) is palette[i mod len(palette)].
C7_ColorByPosition ==
    \A j \in 1..Len(slides) :
        (Complete(j) /\ script[j].fn \in ColorAssemblers) =>
            \A i \in 0..(Cardinality(Cards(j)) - 1) :
                Card(j, i).fill =
                    Palette(script[j].fn)[(i % Len(Palette(script[j].fn))) + 1]

\* C7 as amended: in the color-cycling assemblers the fill color of the i-th
\* card is palette[color_idx mod len(palette)], color_idx being the color
\* index the i-th tuple of the input list carries.
C7_ColorByIndex ==
    \A j \in 1..Len(slides) :
        (Complete(j) /\ script[j].fn \in ColorAssemblers) =>
            /\ Cardinality(Cards(j)) = Len(script[j].events)
            /\ \A i \in 0..(Cardinality(Cards(j)) - 1) :
                   Card(j, i).fill =
                       Palette(script[j].fn)
                           [(script[j].events[i + 1].color_idx
                                % Len(Palette(script[j].fn))) + 1]

\* a three-event slide whose first tuple carries index 4: 4 mod 3 = 1
C7_Witness ==
    /\ Complete(1)
    /\ script[1].fn = "create_three_event_slide"
    /\ Len(script[1].events) = 3
    /\ script[1].events[1].color_idx = 4
    /\ Card(1, 0).fill = "b83280"

\* the text boxes drawn inside the i-th card of slide j
TextsIn(j, i) ==
    {n \in 1..Len(slides[j]) :
        slides[j][n].kind = "TEXTBOX" /\ Inside(slides[j][n], Card(j, i))}

IsTwoTupleCall(c) == c.fn = "create_two_event_slide" /\ Len(c.events) = 2

\* C8: create_two_event_slide called with two (title, body, color-index)
\* tuples produces one slide with exactly two card shapes; each card shows
\* its own title and body, its fill is the color of the fixed 5-entry palette
\* at position (color-index mod 5), and for no integer color-index does the
\* lookup fail with an index out of range.
C8_TwoCardSlide ==
    /\ (\E n \in 1..Len(script) : IsTwoTupleCall(script[n])) => err # "IndexError"
    /\ \A j \in 1..Len(slides) :
           (Complete(j) /\ IsTwoTupleCall(script[j])) =>
               /\ Len(slides) = j
               /\ Cardinality(CardPositions(j, Inches(11500), Inches(2300))) = 2
               /\ Cardinality({n \in 1..Len(slides[j]) :
                                  slides[j][n].kind = "ROUNDED_RECTANGLE"}) = 2
               /\ \A i \in 0..1 :
                      LET e == script[j].events[i + 1] IN
                      /\ Card(j, i).fill =
                             <<"DARK_BLUE", "GREEN", "b83280", "c05621", "6b46c1">>
                                 [(e.color_idx % 5) + 1]
                      /\ Cardinality(TextsIn(j, i)) = 2
                      /\ \E t, b \in TextsIn(j, i) :
                             /\ slides[j][t].top < slides[j][b].top
                             /\ slides[j][t].text = e.title
                             /\ slides[j][b].text = e.content

\* two tuples with indices one past the palette's end and below zero
C8_Witness ==
    /\ Complete(1)
    /\ IsTwoTupleCall(script[1])
    /\ script[1].events[1].color_idx = 5
    /\ script[1].events[2].color_idx = 0 - 1
    /\ Card(1, 0).fill = "DARK_BLUE"
    /\ Card(1, 1).fill = "6b46c1"

----------------------------------------------------------------------------
(* C9, C10 *)

\* C9: throughout a run of main() shapes are only added to, or modified on,
\* the most recently created slide: once the next slide has been created, no
\* earlier slide gains a shape and no shape on an earlier slide changes.
C9_OnlyLastSlideChanges ==
    [][\A j \in 1..(Len(slides') - 1) :
           j \in 1..Len(slides) /\ slides'[j] = slides[j]]_vars

\* a later slide has been drawn on while earlier ones exist
C9_Witness ==
    /\ Len(slides) = 29
    /\ phase = "style"
    /\ Len(slides[29]) = 3

\* C10: a run of main() either completes all 29 assembler calls and then
\* invokes save exactly once on the one output path, or fails in some step
\* and never invokes save; no output file is written unless every slide has
\* been fully built, and no failure is caught or retried.
C10_SaveOnceAfterAllSlides ==
    /\ [](saves <= 1)
    /\ [](written => saves = 1)
    /\ []((phase = "failed" /\ err # "SaveError") => (saves = 0 /\ ~written))
    /\ [](phase = "done" => saves = 1)
    /\ [][saves' # saves =>
            /\ saves = 0 /\ saves' = 1
            /\ phase = "call" /\ pc = 30 /\ Len(slides) = 29
            /\ \A j \in 1..29 : slides[j] = Ops(script[j])]_vars
    /\ [][phase = "failed" => UNCHANGED vars]_vars

\* the run completed and saved once
C10_Witness == phase = "done" /\ saves = 1 /\ written /\ pc = 30

----------------------------------------------------------------------------
(* C11 *)

\* the position and size of a shape
Geometry(s) == [kind |-> s.kind, left |-> s.left, top |-> s.top, width |-> s.width, height |-> s.height]

\* C11: each layout primitive only appends shapes to the slide it is given:
\* in every drawing step that does not raise, the page size, the number of
\* slides and every other slide are unchanged, the shapes already on the slide
\* stay as they are, a new shape goes to the end, and the only shape that is
\* assigned to is the one just appended, which stays where it was put.
C11_OnlyAppends ==
    [][(phase \in {"shape", "style"} /\ phase' # "failed") =>
          /\ page' = page
          /\ Len(slides') = Len(slides)
          /\ \A j \in 1..(Len(slides) - 1) : slides'[j] = slides[j]
          /\ LET old == slides[Len(slides)]
                 new == slides'[Len(slides)]
             IN  /\ Len(new) \in {Len(old), Len(old) + 1}
                 /\ phase = "style" => Len(new) = Len(old)
                 /\ \A n \in 1..Len(old) :
                        IF phase = "style" /\ n = Len(old)
                        THEN Geometry(new[n]) = Geometry(old[n])
                        ELSE new[n] = old[n]]_vars

\* add_info_card has appended a card to the overview slide, after the borders,
\* the title and an earlier card, with two slides before it in the deck
C11_Witness ==
    /\ Len(slides) = 3
    /\ phase = "shape"
    /\ Len(slides[3]) = 12
    /\ slides[3][10].kind = "ROUNDED_RECTANGLE"
    /\ page = [w |-> SLIDE_WIDTH, h |-> SLIDE_HEIGHT]

----------------------------------------------------------------------------
(* C12 *)

\* what a run has drawn is a function of the content script and of how far
\* the run has come: the slides of the calls that have returned ...
DeckOf(scr, returned) == [j \in 1..returned |-> Ops(scr[j])]

\* ... and, of the call in progress, its first shapes, the last of them as
\* add_shape left it when its assignments are still to come
InProgress(ops, shapes, unstyled) ==
    [n \in 1..shapes |-> IF n = shapes /\ unstyled THEN Unstyled(ops[n]) ELSE ops[n]]

\* C12: two runs of the generator with the same content script produce
\* structurally identical decks: the deck a run holds is determined by the
\* script and the run's position alone, so any two runs that reach the same
\* position, the end included, hold the same slides in the same order with
\* the same shapes (kind, position, size, fill and text).
C12_DeckDeterminedByScript ==
    /\ phase = "init" => slides = <<>>
    /\ phase = "call" => slides = DeckOf(script, pc - 1)
    /\ phase = "shape" =>
          slides = Append(DeckOf(script, pc - 1), InProgress(CurOps, k, FALSE))
    /\ phase = "style" =>
          slides = Append(DeckOf(script, pc - 1), InProgress(CurOps, k + 1, TRUE))
    /\ phase = "done" => slides = DeckOf(script, Len(script))

\* a run has finished and holds the deck of the 29 calls
C12_Witness ==
    /\ phase = "done"
    /\ Len(slides) = Len(MainScript)
    /\ \A j \in 1..Len(slides) : Len(slides[j]) = Len(Ops(MainScript[j]))
    /\ slides[29][1].fill = "DARK_BLUE"

----------------------------------------------------------------------------
(* C13 *)

\* the assemblers that take their texts from the caller
TextAssemblers ==
    {"create_section_divider", "create_event_detail_slide", "create_two_event_slide",
     "create_three_event_slide", "create_four_event_slide"}

EventListAssemblers ==
    {"create_two_event_slide", "create_three_event_slide", "create_four_event_slide"}

\* two calls of one assembler that differ at most in their strings (and in
\* what else does not count for the claim: color indices, page number)
SameShapeOfInput(c, d) ==
    /\ c.fn = d.fn
    /\ c.fn \in TextAssemblers
    /\ c.fn \in EventListAssemblers => Len(c.events) = Len(d.events)
    /\ c.fn = "create_four_event_slide" =>
          ((c.extra_detail = <<>>) <=> (d.extra_detail = <<>>))

\* the call with every title and body string replaced by the empty string
Blank(c) ==
    CASE c.fn = "create_section_divider" -> CallDivider(<<>>, <<>>, <<>>, c.page_num)
      [] c.fn = "create_event_detail_slide" ->
            CallDetail(<<>>, <<>>, <<>>, <<>>, <<>>, <<>>, <<>>, <<>>, c.page_num)
      [] c.fn \in {"create_two_event_slide", "create_three_event_slide"} ->
            [c EXCEPT !.page_title = <<>>,
                      !.events = [n \in 1..Len(c.events) |->
                                     [title |-> <<>>, content |-> <<>>,
                                      color_idx |-> c.events[n].color_idx]]]
      [] c.fn = "create_four_event_slide" ->
            [c EXCEPT !.page_title = <<>>,
                      !.events = [n \in 1..Len(c.events) |->
                                     [title |-> <<>>, content |-> <<>>]],
                      !.extra_detail = IF c.extra_detail = <<>> THEN <<>>
                                       ELSE << <<>>, <<>> >>]
      [] OTHER -> c

GeometryOf(shapes) == [n \in 1..Len(shapes) |-> Geometry(shapes[n])]

\* C13: the geometry an assembler produces does not depend on text content:
\* two calls of the same assembler with lists of the same length (and the
\* same presence of extra_detail) but different strings give the same number
\* of shapes at the same positions with the same sizes; and every slide has
\* the geometry its assembler gives when all its strings are empty.
C13_GeometryIgnoresText ==
    /\ \A i, j \in 1..Len(slides) :
          (Complete(i) /\ Complete(j) /\ SameShapeOfInput(script[i], script[j]))
             => GeometryOf(slides[i]) = GeometryOf(slides[j])
    /\ \A j \in 1..Len(slides) :
          (Complete(j) /\ script[j].fn \in TextAssemblers)
             => GeometryOf(slides[j]) = GeometryOf(Ops(Blank(script[j])))

\* slides 7 and 13 are two calls of create_two_event_slide with two events
\* each, titles of different lengths, different bodies and different colors;
\* slides 14 and 17 are calls of create_four_event_slide with and without
\* extra_detail
C13_Witness ==
    /\ Complete(17)
    /\ SameShapeOfInput(script[7], script[13])
    /\ Len(script[7].events[1].title) # Len(script[13].events[1].title)
    /\ script[7].events[2].content # script[13].events[2].content
    /\ slides[7][7].fill # slides[13][7].fill
    /\ ~SameShapeOfInput(script[14], script[17])
    /\ Len(slides[14]) = Len(slides[17]) + 4

----------------------------------------------------------------------------
(* C14 *)

\* C14: set_rtl_arabic_text maps align 'right', 'center' and 'left' to right,
\* center and left paragraph alignment; for any other align value it raises
\* no error and leaves the paragraph alignment as it was, while still setting
\* the text, font size, weight, color and word-wrap.
C14_AlignMappedOrKept ==
    phase = "returned" =>
       LET c == script[1]
           box == slides[1][1]
       IN  /\ err = "none"
           /\ c.align = "right" => box.align = "RIGHT"
           /\ c.align = "center" => box.align = "CENTER"
           /\ c.align = "left" => box.align = "LEFT"
           /\ c.align \notin {"right", "center", "left"} => box.align = c.shape.align
           /\ box.text = c.text
           /\ box.size = c.font_size
           /\ box.bold = c.bold
           /\ box.color = c.color
           /\ box.wrap = "on"
           /\ Geometry(box) = Geometry(c.shape)

\* the call has returned for an align the chain does not know, on a box that
\* was centered before and held another text
C14_Witness ==
    /\ phase = "returned"
    /\ script[1].align = "justify"
    /\ script[1].shape.align = "CENTER"
    /\ slides[1][1].align = "CENTER"
    /\ script[1].shape.text # slides[1][1].text

----------------------------------------------------------------------------
(* C15 *)

\* the slide the e-th entry of the table of contents stands for: the overview
\* slide for the first, the (e - 1)-th section divider of the deck for the rest
OpeningSlide(e) ==
    IF e = 1
    THEN CHOOSE j \in 1..Len(script) : script[j].fn = "create_overview_slide"
    ELSE CHOOSE j \in 1..Len(script) :
            /\ script[j].fn = "create_section_divider"
            /\ Cardinality({i \in 1..j : script[i].fn = "create_section_divider"}) = e - 1

\* the page text of the e-th entry as drawn on the contents slide: after the
\* borders and the title, each entry is a separator, its text and its page
TocPageOnSlide(e) == slides[2][6 + 3 * e].text

\* the text of the page-number label of slide j
LabelText(j) == slides[j][CHOOSE n \in Labels(j) : TRUE].text

\* C15: every page number listed for a section in the table-of-contents slide
\* equals the page number of the slide that opens that section in the deck
\* built by main(): the overview slide for the overview entry, and the
\* section-divider slide for the Q1, Q2, Q3, Q4, sports and budget entries.
C15_TocPagesMatchSections ==
    \A e \in 1..Len(toc_items) :
        (Complete(2) /\ Complete(OpeningSlide(e))) =>
            /\ TocPageOnSlide(e) = LabelText(OpeningSlide(e))
            /\ ParseDecimal(TocPageOnSlide(e)) = OpeningSlide(e)

----------------------------------------------------------------------------
(* C16 *)

\* the shapes n .. n + len - 1 of slide j
Run(j, n, len) == IF n + len - 1 <= Len(slides[j]) THEN SubSeq(slides[j], n, n + len - 1) ELSE <<>>

\* the rounded rectangle at index n of slide j and the shapes after it are
\* what the primitive appends when called with that rectangle's geometry
IsInfoCardAt(j, n) ==
    LET c == slides[j][n]
        r == Run(j, n, 3)
    IN  /\ r # <<>>
        /\ r = add_info_card(c.left, c.top, c.width, c.height, r[2].text, r[3].text, c.fill)

IsDetailBoxAt(j, n) ==
    LET c == slides[j][n]
        r == Run(j, n, 4)
    IN  /\ r # <<>>
        /\ r = add_detail_box(c.left, c.top, c.width, c.height, r[3].text, r[4].text,
                              c.fill, r[2].fill)

IsEventCardAt(j, n) ==
    LET c == slides[j][n]
        r == Run(j, n, 3)
    IN  /\ r # <<>>
        /\ r = add_event_card(c.left, c.top, c.width, c.height, r[2].text, r[3].text, c.fill)

\* the indices of the parts that follow the rounded rectangle of a card
PartsOfCardAt(j, n) ==
    IF IsDetailBoxAt(j, n) THEN {n + 1, n + 2, n + 3}
    ELSE IF IsInfoCardAt(j, n) \/ IsEventCardAt(j, n) THEN {n + 1, n + 2}
    ELSE {}

\* C16: for every card primitive (add_info_card, add_detail_box,
\* add_event_card) and every card height used by main(), each text box and
\* accent border the primitive creates lies inside the bounding box of the
\* card's own rounded rectangle (left..left+width, top..top+height).
C16_PartsInsideCard ==
    \A j \in 1..Len(slides) :
        Complete(j) =>
            \A n \in 1..Len(slides[j]) :
                \A m \in PartsOfCardAt(j, n) : Inside(slides[j][m], slides[j][n])

----------------------------------------------------------------------------
(* C17 *)

\* the pairs <<i, a>>, <<j, b>>: card a of the two-event slide i and card b of
\* the three-event slide j, both slides complete, both color indices in 0..2
ComparableCards ==
    {p \in (1..Len(slides)) \X (0..2) \X (1..Len(slides)) \X (0..2) :
        /\ Complete(p[1]) /\ script[p[1]].fn = "create_two_event_slide"
        /\ Complete(p[3]) /\ script[p[3]].fn = "create_three_event_slide"
        /\ p[2] < Len(script[p[1]].events)
        /\ p[4] < Len(script[p[3]].events)
        /\ script[p[1]].events[p[2] + 1].color_idx \in 0..2
        /\ script[p[3]].events[p[4] + 1].color_idx \in 0..2}

IdxTwo(p) == script[p[1]].events[p[2] + 1].color_idx

IdxThree(p) == script[p[3]].events[p[4] + 1].color_idx

\* C17 as claimed: a given color index resolves to the same fill color in
\* create_two_event_slide and in create_three_event_slide: for every index c
\* in 0..2 the card color of the two-card assembler equals the card color of
\* the three-card assembler.
C17_SameColorForSameIndex ==
    \A p \in ComparableCards :
        IdxTwo(p) = IdxThree(p) => Card(p[1], p[2]).fill = Card(p[3], p[4]).fill

\* C17 as amended: index 0 resolves to the same color (dark blue) in both
\* assemblers; indices 1 and 2 resolve to green and pink in the two-card
\* assembler and to pink and green in the three-card assembler, so a two-event
\* card and a three-event card have the same color exactly when both carry 0
\* or one carries 1 and the other 2.
C17_SameColorUpToSwap ==
    \A p \in ComparableCards :
        /\ (Card(p[1], p[2]).fill = Card(p[3], p[4]).fill)
              <=> \/ IdxTwo(p) = 0 /\ IdxThree(p) = 0
                  \/ IdxTwo(p) = 1 /\ IdxThree(p) = 2
                  \/ IdxTwo(p) = 2 /\ IdxThree(p) = 1
        /\ IdxTwo(p) = 1 => Card(p[1], p[2]).fill = "GREEN"
        /\ IdxThree(p) = 1 => Card(p[3], p[4]).fill = "b83280"

\* the deck holds two-event and three-event cards for each of the indices 0, 1, 2
C17_Witness ==
    \A c \in 0..2 :
        /\ \E p \in ComparableCards : IdxTwo(p) = c
        /\ \E p \in ComparableCards : IdxThree(p) = c

----------------------------------------------------------------------------
(* C18 *)

\* the number a text opens with: its leading digits read as a decimal
LeadingDigits(t) ==
    SubSeq(t, 1, CHOOSE n \in 0..Len(t) :
                    /\ \A x \in 1..n : t[x] \in Digits
                    /\ n < Len(t) => t[n + 1] \notin Digits)

LeadingNumber(t) == ParseDecimal(LeadingDigits(t))

\* the title of a numbered event: "12. ..." or, for the sports events, "S2. ..."
IsNumberedTitle(t) ==
    LET u == IF t # <<>> /\ t[1] = "S" THEN Tail(t) ELSE t IN
    /\ LeadingDigits(u) # <<>>
    /\ Len(u) > Len(LeadingDigits(u))
    /\ u[Len(LeadingDigits(u)) + 1] = "."

\* the section divider that opens section sec, sec in 1..6
Divider(sec) == OpeningSlide(sec + 1)

\* the numbered events presented on the slides between the divider of section sec and the next
Presented(sec) ==
    Cardinality({q \in ((Divider(sec) + 1)..(Divider(sec + 1) - 1)) \X (1..40) :
                    /\ q[2] <= Len(slides[q[1]])
                    /\ IsNumberedTitle(slides[q[1]][q[2]].text)})

\* the count the divider of section sec announces in its third line
Announced(sec) == LeadingNumber(slides[Divider(sec)][8].text)

\* the count on the card of slide j that is titled title
CardCountOn(j, title) ==
    LeadingNumber(slides[j][(CHOOSE n \in 1..Len(slides[j]) : slides[j][n].text = title) + 1].text)

SectionCardTitles ==
    << Txt("Q1 events"), Txt("Q2 events"), Txt("Q3 events"), Txt("Q4 events"),
       Txt("Sports events") >>

SectionCounts == <<9, 8, 8, 16, 3>>

\* C18: in the deck built by main(), the number of numbered events presented
\* between a section divider and the next divider equals the event count that
\* divider announces (Q1 9, Q2 8, Q3 8, Q4 16, sports 3), these counts equal
\* the per-section counts on the overview and budget slides, and their sum
\* equals the announced total of 44.
C18_EventCountsAgree ==
    phase = "done" =>
        /\ \A sec \in 1..5 :
               /\ Presented(sec) = SectionCounts[sec]
               /\ Announced(sec) = Presented(sec)
               /\ CardCountOn(3, SectionCardTitles[sec]) = Announced(sec)
               /\ CardCountOn(28, SectionCardTitles[sec]) = Announced(sec)
        /\ Presented(1) + Presented(2) + Presented(3) + Presented(4) + Presented(5) = 44
        /\ CardCountOn(3, Txt("Total events")) = 44
        /\ CardCountOn(28, Txt("Total events")) = 44

\* the run is over; the longest section shows its 16 events on five slides,
\* one of them on a slide of its own, and the sports slide shows S1..S3
C18_Witness ==
    /\ phase = "done"
    /\ Divider(4) = 19 /\ Divider(5) = 25
    /\ IsNumberedTitle(slides[24][6].text)
    /\ LeadingNumber(slides[24][6].text) = 41
    /\ Presented(5) = 3
    /\ slides[26][8].text[1] = "S"

----------------------------------------------------------------------------
(* C19 *)

\* the five shapes of the two borders of the slide numbered page_num: two
\* bars, two lines, the page-number label
Borders(page_num) == add_top_border \o add_bottom_border(page_num)

\* the two bars of the top border and the two lines of the bottom border
BorderBars == {Borders(0)[n] : n \in 1..4}

\* s is a bar of the top border or a line of the bottom border
IsBorderBar(s) ==
    \E b \in BorderBars : /\ Geometry(s) = Geometry(b)
                           /\ s.fill \in {b.fill, "default"}

\* C19: in the deck built by main(), every slide other than the first (title)
\* and the last (thank-you) carries the top border (2 bars) and the bottom
\* border (2 lines and exactly one page-number label), added before any of
\* the slide's content shapes; the first and last slides carry no border and
\* no page-number label.
C19_BordersFirstOnInnerSlides ==
    \A j \in 1..Len(slides) :
        IF j \in 2..28
        THEN /\ LET b == Borders(j) IN
                \A n \in 1..Len(slides[j]) :
                    IF n <= 5
                    THEN /\ Geometry(slides[j][n]) = Geometry(b[n])
                         /\ (Complete(j) \/ n < Len(slides[j])) => slides[j][n] = b[n]
                    ELSE ~IsBorderBar(slides[j][n]) /\ ~IsLabel(slides[j][n])
             /\ Complete(j) => (Len(slides[j]) > 5 /\ Cardinality(Labels(j)) = 1)
        ELSE \A n \in 1..Len(slides[j]) :
                 ~IsBorderBar(slides[j][n]) /\ ~IsLabel(slides[j][n])

\* the 27 inner slides are complete and the thank-you slide is being drawn
C19_Witness ==
    /\ Len(slides) = 29
    /\ phase = "shape"
    /\ Len(slides[29]) = 2
    /\ Complete(28)
    /\ Len(slides[1]) > 0

====
